---- MODULE Spec2Model ----
(***************************************************************************)
(* The lane-runner game loop of src/unnamed/part_002, lines 1-771: the     *)
(* READY / PLAYING / GAME_OVER state machine, the pointer gestures that    *)
(* pick a lane, the per-frame world update with segment recycling and      *)
(* obstacle spawning, and the sphere-sphere collision check.               *)
(*                                                                         *)
(* Numbers.  The program computes with IEEE doubles.  The model computes   *)
(* with integers in fixed point:                                           *)
(*   time      in units of MAX_DELTA / DeltaSteps (0.05 s / DeltaSteps),   *)
(*   positions in units of 1 / POS,                                        *)
(*   speed     in units of 1 / SPEED_SCALE per second,                     *)
(*   score     in units of 1 / SCORE_SCALE points.                         *)
(* With these scales forwardSpeed * delta, delta * 10 and                  *)
(* elapsedSinceStart * 0.5 are exact; the one product that is not, the     *)
(* lerp step of the player, is rounded to the nearest position unit.       *)
(*                                                                         *)
(* Variants.  The repository holds three more versions of the loop, each   *)
(* with the high score kept in localStorage: the lane game of              *)
(* src/unnamed/part_002 lines 1134-1550, the placeholder loop of           *)
(* src/src/main.ts, and the START / PLAYING / GAME_OVER loop of            *)
(* src/unnamed/part_002 lines 773-1132.  Each has its own specification    *)
(* below; they share the variables of the same name.  Two further          *)
(* versions have the states MENU / PLAYING / GAME_OVER and a track that    *)
(* moves by a fixed step per frame: src/unnamed/part_002 lines 1552-2176   *)
(* and src/unnamed/part_003.                                               *)
(***************************************************************************)
EXTENDS Integers, Sequences, FiniteSets, TLC

VARIABLES gameState, score, highScore, elapsedSinceStart, forwardSpeed,
          currentLaneIndex, targetLaneX, player, slideSegments, obstacles,
          isDragging, dragStartX, dragCurrentX, lastTime, overlay,
          localStorage,
          playerMesh, trackSegments, currentScore, bestScore, lastObstacleZ,
          touchStartX, restartBtn

vars == <<gameState, score, highScore, elapsedSinceStart, forwardSpeed,
          currentLaneIndex, targetLaneX, player, slideSegments, obstacles,
          isDragging, dragStartX, dragCurrentX, lastTime, overlay,
          localStorage,
          playerMesh, trackSegments, currentScore, bestScore, lastObstacleZ,
          touchStartX, restartBtn>>

world == <<score, highScore, elapsedSinceStart, forwardSpeed, player,
           slideSegments, obstacles>>
lane == <<currentLaneIndex, targetLaneX>>
drag == <<isDragging, dragStartX, dragCurrentX>>
\* the variables that only the MENU variants have (see their sections)
menuGame == <<playerMesh, trackSegments, currentScore, bestScore, lastObstacleZ,
              touchStartX, restartBtn>>

----------------------------------------------------------------------------
(* Bounds of the model *)

\* number of time units in the largest delta (0.05 s): the deltas of the
\* model are 0, 0.05/DeltaSteps, ..., 0.05
DeltaSteps == 2
\* the last frame timestamp of the wide specification, in frames of 0.05 s
MaxFrames == 3
\* the last frame timestamp of the long-run specification, in frames of 0.05 s
RunFrames == 46
\* the last timestamp at which the long-run specification takes a tap, in frames
RunTapFrames == 2
\* the collision scenario: elapsedSinceStart of the scene in whole seconds, and
\* the last frame timestamp in frames of 0.05 s
PlacedSeconds == 24
PlacedFrames == 2
\* createWorld: the number of leading segments whose spawn draw is explored; the
\* draw of the others comes out "none" (wide and long-run specification)
SpawnSegments == 1
RunSpawnSegments == 2
\* the same for the world-creation specification
WorldSpawnSegments == 2
\* the last frame timestamp of the main.ts specification, in frames of 0.05 s
MainFrames == 41
\* the fine-grained specification: the timestamp up to which the frames come
\* at every delta, the last frame timestamp (full frames from there on), the
\* last timestamp at which it takes a tap, and the length of a long stall,
\* all in frames of 0.05 s
FineFrames == 3
FineRunFrames == 22
FineTapFrames == 1
FineStall == 10
\* the last frame timestamp of the START-variant specification, in frames of
\* 0.05 s
StartFrames == 8
\* the last frame timestamp of the fair specification, in frames of 0.05 s
LiveFrames == 6
\* the last frame timestamp of the steering specification, in time units
SteerTicks == 5

----------------------------------------------------------------------------
(* Scales *)

TIME_SCALE == 20 * DeltaSteps
POS == 800 * DeltaSteps * DeltaSteps
SPEED_SCALE == 40 * DeltaSteps
SCORE_SCALE == 2 * DeltaSteps

Abs(v) == IF v < 0 THEN -v ELSE v
Min(a, b) == IF a < b THEN a ELSE b
Max(a, b) == IF a > b THEN a ELSE b
\* n / d rounded to the nearest integer, halves away from zero (d > 0)
RoundDiv(n, d) == IF n >= 0 THEN (2 * n + d) \div (2 * d)
                            ELSE -((2 * (-n) + d) \div (2 * d))

----------------------------------------------------------------------------
(* Program constants *)

READY == "READY"
PLAYING == "PLAYING"
GAME_OVER == "GAME_OVER"
GameState == {READY, PLAYING, GAME_OVER}

baseForwardSpeed == 10 * SPEED_SCALE
LANE_X_POSITIONS == <<(-3 * POS) \div 2, 0, (3 * POS) \div 2>>
SEGMENT_LENGTH == 20 * POS
SEGMENT_COUNT == 8
SWIPE_THRESHOLD == 40
LERP_FACTOR == 10
MAX_DELTA == DeltaSteps
CAMERA_Z == 8 * POS
PLAYER_Y == POS
OBSTACLE_Y == (6 * POS) \div 10
playerRadius == (5 * POS) \div 10
obstacleRadius == (6 * POS) \div 10

combined == playerRadius + obstacleRadius
\* camera.position.z + 10, behind which an obstacle is swept
SWEEP_Z == CAMERA_Z + 10 * POS
\* camera.position.z + 5, the recycle threshold of a segment's near edge
RECYCLE_Z == CAMERA_Z + 5 * POS

\* localStorage without the key 'blueSlideParkHighScore'; with the key it is
\* the one-element list of the stored text
NoItem == <<>>

\* a variable that is null is the empty list, one with a value the list of it
null == <<>>

\* the variables of the MENU variants in the loops that do not have them
noMenuGame ==
    /\ playerMesh = null
    /\ trackSegments = <<>>
    /\ currentScore = 0
    /\ bestScore = 0
    /\ lastObstacleZ = 0
    /\ touchStartX = null
    /\ restartBtn = "markup"

----------------------------------------------------------------------------
(* Random draws.  A draw set R names the outcomes of Math.random() that a   *)
(* specification explores: R.lanes for floor(random * 3), R.localZs for    *)
(* random * SEGMENT_LENGTH - SEGMENT_LENGTH / 2, R.segXs for               *)
(* (random - 0.5) * 1.0, and R.window, the number of leading segments of   *)
(* createWorld for which both outcomes of the first draw of a spawn        *)
(* (above or not above OBSTACLE_CHANCE_PER_SEGMENT) are explored; for the  *)
(* segments behind them it is taken to be above, which spawns nothing.     *)

AllLanes == 0 .. (Len(LANE_X_POSITIONS) - 1)
LocalZRange == (-(SEGMENT_LENGTH \div 2)) .. ((SEGMENT_LENGTH \div 2) - 1)
SegXRange == (-(POS \div 2)) .. ((POS \div 2) - 1)

WideDraws == [lanes |-> AllLanes, localZs |-> {-2 * POS, -POS},
              segXs |-> {0}, window |-> SpawnSegments]
RunDraws == [lanes |-> AllLanes, localZs |-> {-2 * POS, -POS},
             segXs |-> {-(POS \div 2), 0}, window |-> RunSpawnSegments]

----------------------------------------------------------------------------
(* World creation *)

createPlayer == [x |-> 0, y |-> PLAYER_Y, z |-> 0]

createSlideSegment(zIndex) == [x |-> 0, z |-> -zIndex * SEGMENT_LENGTH]

\* mutant: localZ is not centred on the segment
spawnObstacleOnSegment_offCentre(obs, segment, R) ==
    {obs} \cup
    {Append(obs, [x |-> LANE_X_POSITIONS[laneIndex + 1], y |-> OBSTACLE_Y,
                  z |-> segment.z + localZ + SEGMENT_LENGTH \div 2]) :
       laneIndex \in R.lanes, localZ \in R.localZs}

\* the obstacle lists spawnObstacleOnSegment can leave behind
spawnObstacleOnSegment(obs, segment, R) ==
    {obs} \cup
    {Append(obs, [x |-> LANE_X_POSITIONS[laneIndex + 1], y |-> OBSTACLE_Y,
                  z |-> segment.z + localZ]) :
       laneIndex \in R.lanes, localZ \in R.localZs}

RECURSIVE createWorldObstacles(_, _, _)
createWorldObstacles(i, obs, R) ==
    IF i = SEGMENT_COUNT THEN {obs}
    ELSE IF i >= R.window THEN createWorldObstacles(i + 1, obs, R)
    ELSE UNION {createWorldObstacles(i + 1, o2, R) :
                  o2 \in spawnObstacleOnSegment(obs, createSlideSegment(i), R)}

\* the worlds createWorld can build: the segments are fixed, the obstacles drawn
createWorld(R) ==
    {[slideSegments |-> [i \in 1 .. SEGMENT_COUNT |-> createSlideSegment(i - 1)],
      obstacles |-> obs] : obs \in createWorldObstacles(0, <<>>, R)}

----------------------------------------------------------------------------
(* Input (lanes) *)

\* mutant: the upper clamp is missing
clampLane_noUpper(index) == Max(0, index)

clampLane(index) == Max(0, Min(Len(LANE_X_POSITIONS) - 1, index))

\* mutant: the lane index is set, the target x is left as it is
setLane_indexOnly(index) ==
    /\ currentLaneIndex' = clampLane(index)
    /\ UNCHANGED targetLaneX

setLane(index) ==
    /\ currentLaneIndex' = clampLane(index)
    /\ targetLaneX' = LANE_X_POSITIONS[clampLane(index) + 1]

onPointerDown(clientX) ==
    /\ isDragging' = TRUE
    /\ dragStartX' = clientX
    /\ dragCurrentX' = clientX
    /\ UNCHANGED <<gameState, world, lane, lastTime, overlay>>

onPointerMove(clientX) ==
    /\ IF ~isDragging THEN UNCHANGED dragCurrentX
                      ELSE dragCurrentX' = clientX
    /\ UNCHANGED <<gameState, world, lane, isDragging, dragStartX, lastTime, overlay>>

\* mutant: the release moves one lane for every SWIPE_THRESHOLD pixels
onPointerUp_byDistance ==
    /\ IF ~isDragging THEN UNCHANGED <<lane, isDragging>>
       ELSE LET deltaX == dragCurrentX - dragStartX IN
            /\ IF deltaX > SWIPE_THRESHOLD
               THEN setLane(currentLaneIndex + deltaX \div SWIPE_THRESHOLD)
               ELSE IF deltaX < -SWIPE_THRESHOLD
               THEN setLane(currentLaneIndex - (-deltaX) \div SWIPE_THRESHOLD)
               ELSE UNCHANGED lane
            /\ isDragging' = FALSE
    /\ UNCHANGED <<gameState, world, dragStartX, dragCurrentX, lastTime, overlay>>

\* mutant: a swipe puts the player on the new lane at once
onPointerUp_snap ==
    /\ IF ~isDragging THEN UNCHANGED <<lane, isDragging, player>>
       ELSE LET deltaX == dragCurrentX - dragStartX IN
            /\ IF deltaX > SWIPE_THRESHOLD THEN setLane(currentLaneIndex + 1)
               ELSE IF deltaX < -SWIPE_THRESHOLD THEN setLane(currentLaneIndex - 1)
               ELSE UNCHANGED lane
            /\ player' = [player EXCEPT !.x = targetLaneX']
            /\ isDragging' = FALSE
    /\ UNCHANGED <<gameState, score, highScore, elapsedSinceStart, forwardSpeed,
                   slideSegments, obstacles, dragStartX, dragCurrentX, lastTime, overlay>>

onPointerUp ==
    /\ IF ~isDragging THEN UNCHANGED <<lane, isDragging>>
       ELSE LET deltaX == dragCurrentX - dragStartX IN
            /\ IF deltaX > SWIPE_THRESHOLD THEN setLane(currentLaneIndex + 1)
               ELSE IF deltaX < -SWIPE_THRESHOLD THEN setLane(currentLaneIndex - 1)
               ELSE UNCHANGED lane
            /\ isDragging' = FALSE
    /\ UNCHANGED <<gameState, world, dragStartX, dragCurrentX, lastTime, overlay>>

----------------------------------------------------------------------------
(* Game state helpers *)

\* mutant: the speed ramp is not reset
resetGame_keepSpeed(R) ==
    /\ score' = 0
    /\ elapsedSinceStart' = 0
    /\ UNCHANGED forwardSpeed
    /\ currentLaneIndex' = 1
    /\ targetLaneX' = LANE_X_POSITIONS[1 + 1]
    /\ \E w \in createWorld(R) :
         /\ slideSegments' = w.slideSegments
         /\ obstacles' = w.obstacles
    /\ player' = [createPlayer EXCEPT !.x = LANE_X_POSITIONS[1 + 1]]

\* resetGame, createWorld included
resetGame(R) ==
    /\ score' = 0
    /\ elapsedSinceStart' = 0
    /\ forwardSpeed' = baseForwardSpeed
    /\ currentLaneIndex' = 1
    /\ targetLaneX' = LANE_X_POSITIONS[1 + 1]
    /\ \E w \in createWorld(R) :
         /\ slideSegments' = w.slideSegments
         /\ obstacles' = w.obstacles
    /\ player' = [createPlayer EXCEPT !.x = LANE_X_POSITIONS[1 + 1]]

startGame(R) ==
    /\ resetGame(R)
    /\ gameState' = PLAYING
    /\ overlay' = "none"

\* mutant: the high score is overwritten by every final score
commitHighScore_always(sc, hs) == sc

\* the high score triggerGameOver leaves
commitHighScore(sc, hs) == IF sc > hs THEN sc ELSE hs

\* mutant: the tap starts a run in every state
handleOverlayTap_always(R) ==
    /\ startGame(R)
    /\ UNCHANGED <<highScore, drag, lastTime>>

handleOverlayTap(R) ==
    /\ IF gameState = READY \/ gameState = GAME_OVER
       THEN startGame(R)
       ELSE UNCHANGED <<gameState, world, lane, overlay>>
    /\ UNCHANGED <<highScore, drag, lastTime>>

----------------------------------------------------------------------------
(* Game update / collisions *)

\* v * v for the distance test, saturated at (2 * POS)^2 to stay within 32-bit
\* integers: an offset of two units or more is outside the combined radius
\* whatever the other offsets are
Sq(v) == Min(Abs(v), 2 * POS) * Min(Abs(v), 2 * POS)

distSq(o, playerPos) ==
    Sq(o.x - playerPos.x) + Sq(o.y - playerPos.y) + Sq(o.z - playerPos.z)

collides(o, playerPos) == distSq(o, playerPos) < combined * combined

\* mutant: no obstacle is ever past the sweep line
swept_never(o) == FALSE

swept(o) == o.z > SWEEP_Z

\* checkCollisions: hit when the loop reaches an obstacle within the combined
\* radius (it returns there, before any removal); otherwise the obstacles past
\* the sweep line are removed
checkCollisions(obs, playerPos) ==
    IF \E i \in 1 .. Len(obs) : collides(obs[i], playerPos)
    THEN [hit |-> TRUE, obstacles |-> obs]
    ELSE [hit |-> FALSE, obstacles |-> SelectSeq(obs, LAMBDA o : ~swept(o))]

\* mutant: the speed falls with the time played
rampSpeed_down(elapsed) == baseForwardSpeed - (elapsed * SPEED_SCALE) \div (2 * TIME_SCALE)

\* mutant: the ramp is 1.0 per second
rampSpeed_steep(elapsed) == baseForwardSpeed + (elapsed * SPEED_SCALE) \div TIME_SCALE

\* forwardSpeed after elapsedSinceStart += delta
rampSpeed(elapsed) == baseForwardSpeed + (elapsed * SPEED_SCALE) \div (2 * TIME_SCALE)

\* mutant: the score gain has the wrong sign
scoreGain_negative(delta) == -((delta * 10 * SCORE_SCALE) \div TIME_SCALE)

\* mutant: every tick scores as a full frame of 0.05 s
scoreGain_perTick(delta) == (MAX_DELTA * 10 * SCORE_SCALE) \div TIME_SCALE

\* delta * 10 in score units
scoreGain(delta) == (delta * 10 * SCORE_SCALE) \div TIME_SCALE

\* forwardSpeed * delta in position units
advance(speed, delta) == (speed * delta * POS) \div (SPEED_SCALE * TIME_SCALE)

\* mutant: the step is at least the whole remaining distance
lerpX_max(x, target, delta) ==
    x + RoundDiv((target - x) * Max(LERP_FACTOR * delta, TIME_SCALE), TIME_SCALE)

\* player.position.x after the lerp step
lerpX(x, target, delta) ==
    x + RoundDiv((target - x) * Min(LERP_FACTOR * delta, TIME_SCALE), TIME_SCALE)

\* mutant: a segment is recycled one segment length later
pastRecycle_late(z) == z - SEGMENT_LENGTH \div 2 > RECYCLE_Z + SEGMENT_LENGTH

pastRecycle(z) == z - SEGMENT_LENGTH \div 2 > RECYCLE_Z

\* mutant: a recycled segment is reset to the fixed far position
recycledZ_fixed(z) == -(SEGMENT_COUNT - 1) * SEGMENT_LENGTH

recycledZ(z) == z - SEGMENT_LENGTH * SEGMENT_COUNT

\* mutant: the cleared span is 0.4 x SEGMENT_LENGTH
nearSegment_narrow(o, segZ) == Abs(o.z - segZ) < (SEGMENT_LENGTH * 4) \div 10

nearSegment(o, segZ) == Abs(o.z - segZ) < (SEGMENT_LENGTH * 6) \div 10

\* the slideSegments.forEach of updateGame from segment i on: every outcome
\* [segs, obs] of moving, recycling, clearing and spawning
RECURSIVE updateSegments(_, _, _, _, _)
updateSegments(i, segs, obs, dz, R) ==
    IF i > Len(segs) THEN {[segs |-> segs, obs |-> obs]}
    ELSE LET z1 == segs[i].z + dz IN
         IF pastRecycle(z1)
         THEN LET z2 == recycledZ(z1)
                  kept == SelectSeq(obs, LAMBDA o : ~nearSegment(o, z2))
              IN UNION {UNION {updateSegments(i + 1,
                                   [segs EXCEPT ![i] = [x |-> sx, z |-> z2]],
                                   o2, dz, R) :
                                 o2 \in spawnObstacleOnSegment(kept, [x |-> sx, z |-> z2], R)} :
                          sx \in R.segXs}
         ELSE updateSegments(i + 1, [segs EXCEPT ![i].z = z1], obs, dz, R)

moveObstacles(obs, dz) == [i \in 1 .. Len(obs) |-> [obs[i] EXCEPT !.z = @ + dz]]

\* mutant: the collision returns the game to the idle state
triggerGameOver_toReady ==
    /\ gameState' = READY
    /\ highScore' = IF score' > highScore THEN score' ELSE highScore
    /\ overlay' = "flex"

\* mutant: the prompt is not shown again
triggerGameOver_noPrompt ==
    /\ gameState' = GAME_OVER
    /\ highScore' = commitHighScore(score', highScore)
    /\ UNCHANGED overlay

triggerGameOver ==
    /\ gameState' = GAME_OVER
    /\ highScore' = commitHighScore(score', highScore)
    /\ overlay' = "flex"

\* mutant: the collision check looks at the positions before the tick moved them
updateGame_checkBeforeMove(delta, R) ==
    /\ elapsedSinceStart' = elapsedSinceStart + delta
    /\ forwardSpeed' = rampSpeed(elapsedSinceStart')
    /\ score' = score + scoreGain(delta)
    /\ player' = [player EXCEPT !.x = lerpX(player.x, targetLaneX, delta)]
    /\ \E out \in updateSegments(1, slideSegments, obstacles,
                                 advance(forwardSpeed', delta), R) :
         LET moved == moveObstacles(out.obs, advance(forwardSpeed', delta))
             res == checkCollisions(out.obs, player)
         IN /\ slideSegments' = out.segs
            /\ obstacles' = IF res.hit THEN moved
                                       ELSE SelectSeq(moved, LAMBDA o : ~swept(o))
            /\ IF res.hit THEN triggerGameOver
                          ELSE UNCHANGED <<gameState, highScore, overlay>>

updateGame(delta, R) ==
    /\ elapsedSinceStart' = elapsedSinceStart + delta
    /\ forwardSpeed' = rampSpeed(elapsedSinceStart')
    /\ score' = score + scoreGain(delta)
    /\ player' = [player EXCEPT !.x = lerpX(player.x, targetLaneX, delta)]
    /\ \E out \in updateSegments(1, slideSegments, obstacles,
                                 advance(forwardSpeed', delta), R) :
         LET moved == moveObstacles(out.obs, advance(forwardSpeed', delta))
             res == checkCollisions(moved, player')
         IN /\ slideSegments' = out.segs
            /\ obstacles' = res.obstacles
            /\ IF res.hit THEN triggerGameOver
                          ELSE UNCHANGED <<gameState, highScore, overlay>>

----------------------------------------------------------------------------
(* Main loop *)

\* mutant: the frame updates the game in every state
animate_ungated(time, R) ==
    /\ lastTime' = time
    /\ updateGame(IF time - lastTime < MAX_DELTA THEN time - lastTime ELSE MAX_DELTA, R)
    /\ UNCHANGED <<currentLaneIndex, targetLaneX, isDragging, dragStartX, dragCurrentX>>

\* mutant: the loop is not continued once the game is over
animate_stopWhenOver(time, R) ==
    /\ gameState # GAME_OVER
    /\ lastTime' = time
    /\ IF gameState = PLAYING
       THEN updateGame(IF time - lastTime < MAX_DELTA THEN time - lastTime ELSE MAX_DELTA, R)
       ELSE UNCHANGED <<gameState, world, overlay>>
    /\ UNCHANGED <<lane, drag>>

\* mutant: the delta is not clamped
frameDelta_unclamped(time, last) == time - last

\* the delta of a frame: (time - lastTime) / 1000 clamped to 0.05
frameDelta(time, last) == Min(time - last, MAX_DELTA)

animate(time, R) ==
    /\ lastTime' = time
    /\ IF gameState = PLAYING
       THEN updateGame(frameDelta(time, lastTime), R)
       ELSE UNCHANGED <<gameState, world, overlay>>
    /\ UNCHANGED <<lane, drag>>

----------------------------------------------------------------------------
(* Specifications *)

\* the state once the module has run: createScene, createWorld, updateHud
InitWith(R) ==
    /\ gameState = READY
    /\ score = 0
    /\ highScore = 0
    /\ elapsedSinceStart = 0
    /\ forwardSpeed = baseForwardSpeed
    /\ currentLaneIndex = 1
    /\ targetLaneX = LANE_X_POSITIONS[1 + 1]
    /\ \E w \in createWorld(R) :
         /\ slideSegments = w.slideSegments
         /\ obstacles = w.obstacles
    /\ player = [createPlayer EXCEPT !.x = LANE_X_POSITIONS[1 + 1]]
    /\ isDragging = FALSE
    /\ dragStartX = 0
    /\ dragCurrentX = 0
    /\ lastTime = 0
    /\ overlay = "initial"

\* clientX of the pointer events: displacements of 0, 40, 41 and 81 pixels
PointerXs == {0, SWIPE_THRESHOLD, 2 * SWIPE_THRESHOLD + 1}

\* timestamps of the next frame: the same instant, a full frame of 0.05 s
\* later, or after a stall of 0.1 s
FrameTimes ==
    {t \in {lastTime, lastTime + MAX_DELTA, lastTime + 2 * MAX_DELTA} :
       t <= MaxFrames * DeltaSteps}

\* timestamp of the next frame in the long run: a full frame of 0.05 s later
RunFrameTimes == {t \in {lastTime + MAX_DELTA} : t <= RunFrames * DeltaSteps}

\* lines 1-771 do not use localStorage
Frame == (\E time \in FrameTimes : animate(time, WideDraws)) /\ UNCHANGED <<localStorage, menuGame>>
Tap == handleOverlayTap(WideDraws) /\ UNCHANGED <<localStorage, menuGame>>
PointerDown == (\E clientX \in PointerXs : onPointerDown(clientX)) /\ UNCHANGED <<localStorage, menuGame>>
PointerMove == (\E clientX \in PointerXs : onPointerMove(clientX)) /\ UNCHANGED <<localStorage, menuGame>>
PointerUp == onPointerUp /\ UNCHANGED <<localStorage, menuGame>>

Init == InitWith(WideDraws) /\ localStorage = NoItem /\ noMenuGame
Next == Frame \/ Tap \/ PointerDown \/ PointerMove \/ PointerUp
Spec == Init /\ [][Next]_vars

RunFrame == (\E time \in RunFrameTimes : animate(time, RunDraws)) /\ UNCHANGED <<localStorage, menuGame>>
RunTap ==
    /\ lastTime <= RunTapFrames * DeltaSteps
    /\ handleOverlayTap(RunDraws)
    /\ UNCHANGED <<localStorage, menuGame>>

RunInit == InitWith(RunDraws) /\ localStorage = NoItem /\ noMenuGame
RunNext == RunFrame \/ RunTap
RunSpec == RunInit /\ [][RunNext]_vars

\* The fine-grained specification: frames at every delta of the model and
\* after stalls, then full frames for more than a second; taps; no pointer
\* events, so the obstacles are drawn in the player's lane.
FineDraws == [lanes |-> {1}, localZs |-> {-2 * POS, -POS},
              segXs |-> {0}, window |-> SpawnSegments]

\* timestamps of the next frame: at first every delta of the model, a stall
\* of one time unit more than the clamp, and a long stall; later a full frame
FineFrameTimes ==
    {t \in (IF lastTime < FineFrames * DeltaSteps
            THEN (lastTime .. (lastTime + MAX_DELTA + 1)) \cup {lastTime + FineStall * MAX_DELTA}
            ELSE {lastTime + MAX_DELTA}) :
       t <= FineRunFrames * DeltaSteps}

FineFrame == (\E time \in FineFrameTimes : animate(time, FineDraws)) /\ UNCHANGED <<localStorage, menuGame>>
FineTap ==
    /\ lastTime <= FineTapFrames * DeltaSteps
    /\ handleOverlayTap(FineDraws)
    /\ UNCHANGED <<localStorage, menuGame>>

FineInit == InitWith(FineDraws) /\ localStorage = NoItem /\ noMenuGame
FineNext == FineFrame \/ FineTap
FineSpec == FineInit /\ [][FineNext]_vars

\* The same with the browser's guarantee that a requested animation frame
\* is delivered, with a timestamp later than the frame before: animate
\* requests the next frame before anything else, so a frame is always pending.
LiveFrame ==
    /\ \E time \in {t \in FineFrameTimes \ {lastTime} : t <= LiveFrames * DeltaSteps} :
         animate(time, FineDraws)
    /\ UNCHANGED <<localStorage, menuGame>>
LiveNext == LiveFrame \/ FineTap
LiveSpec == FineInit /\ [][LiveNext]_vars /\ WF_vars(LiveFrame)

\* The world-creation specification: loads, starts and a few frames over
\* worlds drawn with the least and the greatest localZ, and with the localZ
\* that ends a run in its first frame, in the player's lane and the lane to
\* its right.
WorldDraws == [lanes |-> {1, 2},
               localZs |-> {-(SEGMENT_LENGTH \div 2), -POS, (SEGMENT_LENGTH \div 2) - 1},
               segXs |-> {0}, window |-> WorldSpawnSegments]

WorldFrame == (\E time \in FrameTimes : animate(time, WorldDraws)) /\ UNCHANGED <<localStorage, menuGame>>
WorldTap == handleOverlayTap(WorldDraws) /\ UNCHANGED <<localStorage, menuGame>>

WorldInit == InitWith(WorldDraws) /\ localStorage = NoItem /\ noMenuGame
WorldNext == WorldFrame \/ WorldTap
WorldSpec == WorldInit /\ [][WorldNext]_vars

\* The crowded specification: a long run of full frames over worlds with an
\* obstacle drawn for any of the eight segments, each at the left lane and
\* one unit from the far edge of its segment, so that a recycled segment
\* finds the obstacle of the segment in front of it within its cleared span.
ClearDraws == [lanes |-> {0}, localZs |-> {-9 * POS},
               segXs |-> {0}, window |-> SEGMENT_COUNT]

ClearFrame == (\E time \in RunFrameTimes : animate(time, ClearDraws)) /\ UNCHANGED <<localStorage, menuGame>>
ClearTap ==
    /\ lastTime <= RunTapFrames * DeltaSteps
    /\ handleOverlayTap(ClearDraws)
    /\ UNCHANGED <<localStorage, menuGame>>

ClearInit == InitWith(ClearDraws) /\ localStorage = NoItem /\ noMenuGame
ClearNext == ClearFrame \/ ClearTap
ClearSpec == ClearInit /\ [][ClearNext]_vars

----------------------------------------------------------------------------
(* The collision scenario: a test places one obstacle at exactly the       *)
(* player's position in a running game and lets frames run.  The scene is  *)
(* a started game whose clock has been set: any whole second up to         *)
(* PlacedSeconds of play, the player at a lane centre, any pending lane.   *)

NoDraws == [lanes |-> {}, localZs |-> {}, segXs |-> {0}, window |-> 0]

PlacedInit ==
    /\ gameState = PLAYING
    /\ \E s \in 0 .. PlacedSeconds :
         /\ elapsedSinceStart = s * TIME_SCALE
         /\ forwardSpeed = rampSpeed(s * TIME_SCALE)
         /\ score = s * 10 * SCORE_SCALE
    /\ highScore = 0
    /\ currentLaneIndex \in AllLanes
    /\ targetLaneX = LANE_X_POSITIONS[currentLaneIndex + 1]
    /\ \E l \in AllLanes : player = [createPlayer EXCEPT !.x = LANE_X_POSITIONS[l + 1]]
    /\ obstacles = <<[x |-> player.x, y |-> player.y, z |-> player.z]>>
    /\ slideSegments = [i \in 1 .. SEGMENT_COUNT |-> createSlideSegment(i - 1)]
    /\ isDragging = FALSE
    /\ dragStartX = 0
    /\ dragCurrentX = 0
    /\ lastTime = 0
    /\ overlay = "none"
    /\ localStorage = NoItem /\ noMenuGame

\* timestamps of the next frame: every delta of the model, and a stall
PlacedFrameTimes ==
    {t \in lastTime .. (lastTime + MAX_DELTA + 1) : t <= PlacedFrames * DeltaSteps}

PlacedFrame == (\E time \in PlacedFrameTimes : animate(time, NoDraws)) /\ UNCHANGED <<localStorage, menuGame>>

PlacedNext == PlacedFrame
PlacedSpec == PlacedInit /\ [][PlacedNext]_vars

----------------------------------------------------------------------------
(* The steering specification: a run over a world without obstacles, with  *)
(* the pointer gestures and frames at every delta of the model and after   *)
(* a stall.                                                                *)

SteerFrameTimes ==
    {t \in lastTime .. (lastTime + MAX_DELTA + 1) : t <= SteerTicks}

SteerFrame == (\E time \in SteerFrameTimes : animate(time, NoDraws)) /\ UNCHANGED <<localStorage, menuGame>>
\* the run is started before the first frame has advanced the clock
SteerTap == lastTime = 0 /\ handleOverlayTap(NoDraws) /\ UNCHANGED <<localStorage, menuGame>>
SteerPointerDown == (\E clientX \in PointerXs : onPointerDown(clientX)) /\ UNCHANGED <<localStorage, menuGame>>
SteerPointerMove == (\E clientX \in PointerXs : onPointerMove(clientX)) /\ UNCHANGED <<localStorage, menuGame>>
SteerPointerUp == onPointerUp /\ UNCHANGED <<localStorage, menuGame>>

SteerInit == InitWith(NoDraws) /\ localStorage = NoItem /\ noMenuGame
SteerNext ==
    SteerFrame \/ SteerTap \/ SteerPointerDown \/ SteerPointerMove \/ SteerPointerUp
SteerSpec == SteerInit /\ [][SteerNext]_vars

----------------------------------------------------------------------------
(* High score persistence (part_002 lines 1189-1206, the same text as       *)
(* main.ts lines 44-61 and, but for the HUD, part_002 lines 817-835).  A    *)
(* stored text is the decimal text of a number: its sign, the digits before *)
(* the point, and the fraction after the point in score units (0 when the   *)
(* text has no point).                                                      *)

\* score.toString()
toString(v) ==
    [sign |-> IF v < 0 THEN "-" ELSE "",
     int |-> Abs(v) \div SCORE_SCALE,
     frac |-> Abs(v) % SCORE_SCALE]

\* parseInt(saved, 10): the sign and the digits up to the first character
\* that is not a digit, so that a fraction is dropped
parseInt(saved) == (IF saved.sign = "-" THEN -1 ELSE 1) * saved.int * SCORE_SCALE

loadHighScore(storage) == IF Len(storage) = 0 THEN 0 ELSE parseInt(storage[1])

\* mutant: the value is stored but not taken over in memory
saveHighScore_storeOnly(sc) ==
    /\ localStorage' = <<toString(sc)>>
    /\ UNCHANGED highScore

saveHighScore(sc) ==
    /\ localStorage' = <<toString(sc)>>
    /\ highScore' = sc

updateScore(newScore) ==
    /\ score' = newScore
    /\ IF newScore > highScore THEN saveHighScore(newScore)
                               ELSE UNCHANGED <<highScore, localStorage>>

----------------------------------------------------------------------------
(* The lane variant with localStorage, part_002 lines 1134-1550.  Its       *)
(* setLane, onPointerMove, onPointerUp, triggerGameOver, checkCollisions,   *)
(* updateGame and animate are, statement for statement, those of lines      *)
(* 1-771 and are not repeated; the player stands at z = 5, a press outside  *)
(* PLAYING is a tap, and the high score is loaded when the page loads.      *)

createPlayerStored == [x |-> 0, y |-> PLAYER_Y, z |-> 5 * POS]

resetGameStored(R) ==
    /\ score' = 0
    /\ elapsedSinceStart' = 0
    /\ forwardSpeed' = baseForwardSpeed
    /\ currentLaneIndex' = 1
    /\ targetLaneX' = LANE_X_POSITIONS[1 + 1]
    /\ \E w \in createWorld(R) :
         /\ slideSegments' = w.slideSegments
         /\ obstacles' = w.obstacles
    /\ player' = [createPlayerStored EXCEPT !.x = LANE_X_POSITIONS[1 + 1]]

startGameStored(R) ==
    /\ resetGameStored(R)
    /\ gameState' = PLAYING
    /\ overlay' = "none"

handleTap(R) ==
    /\ IF gameState = READY \/ gameState = GAME_OVER
       THEN startGameStored(R)
       ELSE UNCHANGED <<gameState, world, lane, overlay>>
    /\ UNCHANGED <<highScore, drag, lastTime>>

onPointerDownStored(clientX, R) ==
    IF gameState # PLAYING
    THEN handleTap(R)
    ELSE /\ isDragging' = TRUE
         /\ dragStartX' = clientX
         /\ dragCurrentX' = clientX
         /\ UNCHANGED <<gameState, world, lane, lastTime, overlay>>

\* the module's top-level code, run by a page load over the storage it finds
loadPageStored(R) ==
    /\ gameState' = READY
    /\ score' = 0
    /\ highScore' = loadHighScore(localStorage)
    /\ elapsedSinceStart' = 0
    /\ forwardSpeed' = baseForwardSpeed
    /\ currentLaneIndex' = 1
    /\ targetLaneX' = LANE_X_POSITIONS[1 + 1]
    /\ \E w \in createWorld(R) :
         /\ slideSegments' = w.slideSegments
         /\ obstacles' = w.obstacles
    /\ player' = createPlayerStored
    /\ isDragging' = FALSE
    /\ dragStartX' = 0
    /\ dragCurrentX' = 0
    /\ lastTime' = 0
    /\ overlay' = "initial"
    /\ UNCHANGED localStorage

\* obstacles drawn two and one unit in front of the player's reach
StoredDraws == [lanes |-> AllLanes, localZs |-> {3 * POS, 4 * POS},
                segXs |-> {0}, window |-> SpawnSegments]

StoredInit ==
    /\ gameState = READY
    /\ score = 0
    /\ localStorage = NoItem /\ noMenuGame
    /\ highScore = loadHighScore(localStorage)
    /\ elapsedSinceStart = 0
    /\ forwardSpeed = baseForwardSpeed
    /\ currentLaneIndex = 1
    /\ targetLaneX = LANE_X_POSITIONS[1 + 1]
    /\ \E w \in createWorld(StoredDraws) :
         /\ slideSegments = w.slideSegments
         /\ obstacles = w.obstacles
    /\ player = createPlayerStored
    /\ isDragging = FALSE
    /\ dragStartX = 0
    /\ dragCurrentX = 0
    /\ lastTime = 0
    /\ overlay = "initial"

StoredFrame == (\E time \in FrameTimes : animate(time, StoredDraws)) /\ UNCHANGED <<localStorage, menuGame>>
StoredTap == handleTap(StoredDraws) /\ UNCHANGED <<localStorage, menuGame>>
StoredPointerDown ==
    (\E clientX \in PointerXs : onPointerDownStored(clientX, StoredDraws)) /\ UNCHANGED <<localStorage, menuGame>>
StoredPointerMove == (\E clientX \in PointerXs : onPointerMove(clientX)) /\ UNCHANGED <<localStorage, menuGame>>
StoredPointerUp == onPointerUp /\ UNCHANGED <<localStorage, menuGame>>
StoredLoad == loadPageStored(StoredDraws) /\ UNCHANGED menuGame

StoredNext ==
    \/ StoredFrame \/ StoredTap \/ StoredPointerDown \/ StoredPointerMove
    \/ StoredPointerUp \/ StoredLoad
StoredSpec == StoredInit /\ [][StoredNext]_vars

----------------------------------------------------------------------------
(* The placeholder loop of src/src/main.ts: no lanes, no world; the score   *)
(* goes through updateScore.  Its swipe bookkeeping (touchStartX,           *)
(* touchStartY, isDragging, currentLane, lines 176-255) is read by nothing  *)
(* else and is left out.  triggerGameOver is exported as gameOver and has   *)
(* no caller in the file: the game logic that imports it is the caller.     *)

\* the variables of the lane game, which this loop does not have
noLaneGame ==
    /\ currentLaneIndex = 1
    /\ targetLaneX = LANE_X_POSITIONS[1 + 1]
    /\ player = createPlayer
    /\ slideSegments = <<>>
    /\ obstacles = <<>>
    /\ isDragging = FALSE
    /\ dragStartX = 0
    /\ dragCurrentX = 0

laneGame == <<currentLaneIndex, targetLaneX, player, slideSegments, obstacles,
              isDragging, dragStartX, dragCurrentX>>

\* Math.floor(delta * 10), in score units
floorGain(delta) == ((delta * 10) \div TIME_SCALE) * SCORE_SCALE

resetGameMain ==
    /\ score' = 0
    /\ elapsedSinceStart' = 0
    /\ forwardSpeed' = baseForwardSpeed

startGameMain ==
    /\ resetGameMain
    /\ gameState' = PLAYING
    /\ overlay' = "none"

triggerGameOverMain ==
    /\ gameState' = GAME_OVER
    /\ highScore' = commitHighScore(score, highScore)
    /\ overlay' = "flex"
    /\ UNCHANGED <<score, elapsedSinceStart, forwardSpeed, lastTime, localStorage, laneGame>>

updateGameMain(delta) ==
    IF gameState # PLAYING THEN UNCHANGED <<score, highScore, localStorage>>
    ELSE updateScore(score + floorGain(delta))

animateMain(time) ==
    /\ lastTime' = time
    /\ IF gameState = PLAYING
       THEN updateGameMain(frameDelta(time, lastTime))
       ELSE UNCHANGED <<score, highScore, localStorage>>
    /\ UNCHANGED <<gameState, elapsedSinceStart, forwardSpeed, overlay, laneGame>>

handleTapMain ==
    /\ IF gameState = READY \/ gameState = GAME_OVER
       THEN startGameMain
       ELSE UNCHANGED <<gameState, score, elapsedSinceStart, forwardSpeed, overlay>>
    /\ UNCHANGED <<highScore, lastTime, localStorage, laneGame>>

\* the module's top-level code, run by a page load over the storage it finds
loadPageMain ==
    /\ gameState' = READY
    /\ score' = 0
    /\ highScore' = loadHighScore(localStorage)
    /\ elapsedSinceStart' = 0
    /\ forwardSpeed' = baseForwardSpeed
    /\ lastTime' = 0
    /\ overlay' = "initial"
    /\ UNCHANGED <<localStorage, laneGame>>

\* what the first page load finds under the key: nothing, or the text of a
\* whole number that an earlier deployment or the user left there
MainItems == {NoItem, <<toString(-SCORE_SCALE)>>, <<toString(SCORE_SCALE)>>}

\* timestamps of the next frame: every delta of the model, and stalls up to 0.1 s
MainFrameTimes ==
    {t \in lastTime .. (lastTime + 2 * MAX_DELTA) : t <= MainFrames * DeltaSteps}

MainInit ==
    /\ gameState = READY
    /\ score = 0
    /\ localStorage \in MainItems
    /\ noMenuGame
    /\ highScore = loadHighScore(localStorage)
    /\ elapsedSinceStart = 0
    /\ forwardSpeed = baseForwardSpeed
    /\ lastTime = 0
    /\ overlay = "initial"
    /\ noLaneGame

MainFrame == (\E time \in MainFrameTimes : animateMain(time)) /\ UNCHANGED menuGame
\* the player taps before the first frame has advanced the clock
MainTap == lastTime = 0 /\ handleTapMain /\ UNCHANGED menuGame
MainGameOver == gameState = PLAYING /\ triggerGameOverMain /\ UNCHANGED menuGame
MainLoad == loadPageMain /\ UNCHANGED menuGame

MainNext == MainFrame \/ MainTap \/ MainGameOver \/ MainLoad
MainSpec == MainInit /\ [][MainNext]_vars

----------------------------------------------------------------------------
(* The START / PLAYING / GAME_OVER loop of part_002 lines 773-1132: no      *)
(* lanes, no world; two overlays, whose display the page's markup sets      *)
(* until a handler adds or removes their class 'hidden'.  Its swipe         *)
(* bookkeeping (touchStartX, touchStartY, isDragging, currentLane, lines    *)
(* 950-1035) is read by nothing else and is left out.  triggerGameOver is   *)
(* exported as gameOver and has no caller in the file: the game logic that  *)
(* imports it is the caller.                                                *)

START == "START"

\* MAX_DELTA of line 794, 0.1 s
MAX_DELTA_START == 2 * DeltaSteps

overlaysOfMarkup == [tapToStart |-> "markup", gameOver |-> "markup"]

startGameStart ==
    /\ gameState' = PLAYING
    /\ overlay' = [overlay EXCEPT !.tapToStart = "hidden"]
    /\ updateScore(0)

triggerGameOverStart ==
    /\ gameState' = GAME_OVER
    /\ overlay' = [overlay EXCEPT !.gameOver = "shown"]
    /\ UNCHANGED <<score, highScore, localStorage>>

restartGame ==
    /\ gameState' = START
    /\ overlay' = [overlay EXCEPT !.gameOver = "hidden", !.tapToStart = "shown"]
    /\ updateScore(0)

\* handleTouchStart and handleMouseDown
handleTouchStart ==
    /\ IF gameState = GAME_OVER THEN restartGame
       ELSE IF gameState = START THEN startGameStart
       ELSE UNCHANGED <<gameState, overlay, score, highScore, localStorage>>
    /\ UNCHANGED <<elapsedSinceStart, forwardSpeed, lastTime, laneGame>>

update(deltaTime) ==
    IF gameState # PLAYING THEN UNCHANGED <<score, highScore, localStorage>>
    ELSE updateScore(score + floorGain(deltaTime))

animateStart(currentTime) ==
    /\ lastTime' = currentTime
    /\ update(Min(currentTime - lastTime, MAX_DELTA_START))
    /\ UNCHANGED <<gameState, overlay, elapsedSinceStart, forwardSpeed, laneGame>>

\* the module's top-level code, run by a page load over the storage it finds
loadPageStart ==
    /\ gameState' = START
    /\ score' = 0
    /\ highScore' = loadHighScore(localStorage)
    /\ lastTime' = 0
    /\ overlay' = overlaysOfMarkup
    /\ UNCHANGED <<localStorage, elapsedSinceStart, forwardSpeed, laneGame>>

\* timestamps of the next frame: every delta up to the clamp of 0.1 s
StartFrameTimes ==
    {t \in lastTime .. (lastTime + MAX_DELTA_START) : t <= StartFrames * DeltaSteps}

StartInit ==
    /\ gameState = START
    /\ score = 0
    /\ localStorage = NoItem /\ noMenuGame
    /\ highScore = loadHighScore(localStorage)
    /\ lastTime = 0
    /\ overlay = overlaysOfMarkup
    /\ elapsedSinceStart = 0
    /\ forwardSpeed = baseForwardSpeed
    /\ noLaneGame

StartFrame ==
    (\E currentTime \in StartFrameTimes : animateStart(currentTime)) /\ UNCHANGED menuGame
\* a run is started before the first frame has advanced the clock
StartPress ==
    (gameState = START => lastTime = 0) /\ handleTouchStart /\ UNCHANGED menuGame
StartGameOver ==
    /\ gameState = PLAYING
    /\ triggerGameOverStart
    /\ UNCHANGED <<elapsedSinceStart, forwardSpeed, lastTime, laneGame, menuGame>>
StartLoad == loadPageStart /\ UNCHANGED menuGame

StartNext == StartFrame \/ StartPress \/ StartGameOver \/ StartLoad
StartSpec == StartInit /\ [][StartNext]_vars

----------------------------------------------------------------------------
(* The MENU / PLAYING / GAME_OVER loops: src/unnamed/part_003 (with a       *)
(* restart button) and src/unnamed/part_002 lines 1552-2176 (driven by     *)
(* window pointer events).  The track moves toward the camera by           *)
(* TRACK_SPEED per frame, frames carry no timestamp, and currentScore      *)
(* grows by TRACK_SPEED * 0.1 per frame: it is counted in units of         *)
(* 1 / MENU_SCORE_SCALE points, one unit per frame.  A mesh is the record  *)
(* of its position; a track segment, which only ever moves along z, is its *)
(* z.  restartBtn is the style.display of the restart button, "markup"     *)
(* while the program has not assigned it.                                  *)

MENU == "MENU"
LANES == <<-2 * POS, 0, 2 * POS>>
TRACK_SEGMENT_LENGTH == 10 * POS
TRACK_SPEED == POS \div 4
MENU_SCORE_SCALE == 40

\* longest run of frames that is followed, and the lanes that are drawn
ButtonFrames == 100
MenuFrames == 100

\* the variables of the lane game that these loops leave alone
idle == <<score, highScore, elapsedSinceStart, forwardSpeed, player,
          slideSegments, isDragging, dragStartX, dragCurrentX, lastTime,
          localStorage>>

createPlayerMesh == [x |-> 0, y |-> POS \div 2, z |-> 0]

\* segmentCount = 20 boxes, the i-th at z = -i * TRACK_SEGMENT_LENGTH
createInitialTrack == [i \in 1 .. 20 |-> -(i - 1) * TRACK_SEGMENT_LENGTH]

\* the lists that one more obstacle in a random lane can make of obs; the
\* caller stores zPos in lastObstacleZ
spawnObstacleRow(obs, zPos, lanes) ==
    {Append(obs, [x |-> LANES[laneIndex + 1], y |-> POS \div 2, z |-> zPos]) :
       laneIndex \in lanes}

minTrackZ(segs) ==
    CHOOSE z \in {segs[i] : i \in DOMAIN segs} :
       \A i \in DOMAIN segs : z <= segs[i]

\* forEach over the segments in order: one past maxZ = 5 goes behind the
\* segment that is farthest at that moment
RECURSIVE recycleTrack(_, _)
recycleTrack(segs, i) ==
    IF i > Len(segs) THEN segs
    ELSE IF segs[i] > 5 * POS
         THEN recycleTrack([segs EXCEPT ![i] = minTrackZ(segs) - TRACK_SEGMENT_LENGTH],
                           i + 1)
         ELSE recycleTrack(segs, i + 1)

\* Box3.intersectsBox of the boxes around a sphere of radius 0.5 and a cube
\* of side 1: they overlap, faces included, on every axis
intersectsBox(mesh, ob) ==
    /\ Abs(mesh.x - ob.x) <= POS
    /\ Abs(mesh.y - ob.y) <= POS
    /\ Abs(mesh.z - ob.z) <= POS

(* src/unnamed/part_003 *)

\* startGame, with createPlayer, createInitialTrack, spawnObstacleRow(-25)
\* and hideMenuOverlay, which hides the overlay and the share and edit
\* buttons and leaves the restart button as it is
startGameButton(lanes) ==
    \E obs \in spawnObstacleRow(<<>>, -25 * POS, lanes) :
       /\ gameState' = PLAYING
       /\ currentScore' = 0
       /\ playerMesh' = <<createPlayerMesh>>
       /\ trackSegments' = createInitialTrack
       /\ obstacles' = obs
       /\ lastObstacleZ' = -25 * POS
       /\ overlay' = "none"
       /\ UNCHANGED <<bestScore, restartBtn>>

\* endGame, with showGameOverOverlay taking its GameOver branch; finalScore
\* is currentScore at the call
endGameButton(finalScore) ==
    /\ gameState' = GAME_OVER
    /\ bestScore' = IF finalScore > bestScore THEN finalScore ELSE bestScore
    /\ overlay' = "flex"
    /\ restartBtn' = "block"

animateButton(lanes) ==
    IF gameState = PLAYING
    THEN LET segs == recycleTrack([i \in DOMAIN trackSegments |->
                                      trackSegments[i] + TRACK_SPEED], 1)
             moved == [i \in DOMAIN obstacles |->
                          [obstacles[i] EXCEPT !.z = @ + TRACK_SPEED]]
             neededZ == minTrackZ(segs) - 15 * POS
             spawn == lastObstacleZ > neededZ
             zPos == lastObstacleZ - 10 * POS
         IN  \E obs \in IF spawn THEN spawnObstacleRow(moved, zPos, lanes)
                        ELSE {moved} :
                /\ trackSegments' = segs
                /\ obstacles' = obs
                /\ lastObstacleZ' = IF spawn THEN zPos ELSE lastObstacleZ
                /\ currentScore' = currentScore + 1
                /\ UNCHANGED playerMesh
                /\ IF /\ playerMesh # null
                      /\ \E i \in DOMAIN obs : intersectsBox(playerMesh[1], obs[i])
                   THEN endGameButton(currentScore + 1)
                   ELSE UNCHANGED <<gameState, bestScore, overlay, restartBtn>>
    ELSE UNCHANGED <<gameState, obstacles, overlay, playerMesh, trackSegments,
                     currentScore, bestScore, lastObstacleZ, restartBtn>>

\* after createScene, createWorld, updateHud and the first animate call; the
\* world of the lane game is created without obstacles
ButtonInit ==
    /\ gameState = MENU
    /\ score = 0
    /\ highScore = 0
    /\ elapsedSinceStart = 0
    /\ forwardSpeed = baseForwardSpeed
    /\ currentLaneIndex = 1
    /\ targetLaneX = LANE_X_POSITIONS[1 + 1]
    /\ \E w \in createWorld(NoDraws) :
         /\ slideSegments = w.slideSegments
         /\ obstacles = w.obstacles
    /\ player = [createPlayer EXCEPT !.x = LANE_X_POSITIONS[1 + 1]]
    /\ isDragging = FALSE
    /\ dragStartX = 0
    /\ dragCurrentX = 0
    /\ lastTime = 0
    /\ overlay = "initial"
    /\ localStorage = NoItem
    /\ noMenuGame

\* Frames; a tap on the overlay while it is displayed (handleOverlayTap); a
\* click on the restart button while the program displays it.  The row of a
\* start is drawn in the left or the centre lane, the later rows in the
\* right lane: a run ends at the first row or runs on.
ButtonNext ==
    \/ currentScore < ButtonFrames /\ animateButton({2}) /\ UNCHANGED <<idle, lane, touchStartX>>
    \/ overlay # "none" /\ startGameButton({0, 1}) /\ UNCHANGED <<idle, lane, touchStartX>>
    \/ restartBtn = "block" /\ startGameButton({0, 1}) /\ UNCHANGED <<idle, lane, touchStartX>>
ButtonSpec == ButtonInit /\ [][ButtonNext]_vars

(* src/unnamed/part_002, lines 1552-2176 *)

\* startGame, with createPlayer, createInitialTrack, spawnObstacleRow(-25)
\* and setOverlay(null)
startGameMenu(lanes) ==
    \E obs \in spawnObstacleRow(<<>>, -25 * POS, lanes) :
       /\ gameState' = PLAYING
       /\ currentScore' = 0
       /\ currentLaneIndex' = 1
       /\ playerMesh' = <<[createPlayerMesh EXCEPT !.x = LANES[1 + 1]]>>
       /\ trackSegments' = createInitialTrack
       /\ obstacles' = obs
       /\ lastObstacleZ' = -25 * POS
       /\ overlay' = "none"
       /\ UNCHANGED bestScore

\* endGame, with setOverlay("Game Over - tap to restart"); finalScore is
\* currentScore at the call
endGameMenu(finalScore) ==
    /\ gameState' = GAME_OVER
    /\ bestScore' = IF finalScore > bestScore THEN finalScore ELSE bestScore
    /\ overlay' = "flex"

animateMenu(lanes) ==
    IF gameState = PLAYING
    THEN LET segs == recycleTrack([i \in DOMAIN trackSegments |->
                                      trackSegments[i] + TRACK_SPEED], 1)
             moved == [i \in DOMAIN obstacles |->
                          [obstacles[i] EXCEPT !.z = @ + TRACK_SPEED]]
             spawn == lastObstacleZ > minTrackZ(segs) - 20 * POS
             zPos == lastObstacleZ - 12 * POS
         IN  \E obs \in IF spawn THEN spawnObstacleRow(moved, zPos, lanes)
                        ELSE {moved} :
                /\ trackSegments' = segs
                /\ obstacles' = obs
                /\ lastObstacleZ' = IF spawn THEN zPos ELSE lastObstacleZ
                /\ currentScore' = currentScore + 1
                /\ UNCHANGED <<playerMesh, currentLaneIndex, touchStartX>>
                /\ IF /\ playerMesh # null
                      /\ \E i \in DOMAIN obs : intersectsBox(playerMesh[1], obs[i])
                   THEN endGameMenu(currentScore + 1)
                   ELSE UNCHANGED <<gameState, bestScore, overlay>>
    ELSE UNCHANGED <<gameState, obstacles, overlay, playerMesh, trackSegments,
                     currentScore, bestScore, lastObstacleZ, currentLaneIndex,
                     touchStartX>>

\* the window's pointerup listener, with handleTapOrClick and
\* movePlayerToLane: a release without a press or within 20 px of it is a
\* tap, which starts a run in MENU and GAME_OVER; any other release while
\* PLAYING moves the player one lane, if there is one
onPointerUpMenu(clientX, lanes) ==
    LET dx == clientX - touchStartX[1]
        index == IF dx < 0 THEN currentLaneIndex - 1 ELSE currentLaneIndex + 1
        run == <<gameState, obstacles, overlay, playerMesh, trackSegments,
                 currentScore, bestScore, lastObstacleZ, currentLaneIndex>>
    IN  IF touchStartX = null
        THEN /\ IF gameState \in {MENU, GAME_OVER} THEN startGameMenu(lanes)
                ELSE UNCHANGED run
             /\ UNCHANGED touchStartX
        ELSE /\ touchStartX' = null
             /\ IF Abs(dx) < 20
                THEN IF gameState \in {MENU, GAME_OVER} THEN startGameMenu(lanes)
                     ELSE UNCHANGED run
                ELSE IF /\ gameState = PLAYING
                        /\ playerMesh # null
                        /\ index >= 0
                        /\ index < Len(LANES)
                     THEN /\ currentLaneIndex' = index
                          /\ playerMesh' = <<[playerMesh[1] EXCEPT !.x = LANES[index + 1]]>>
                          /\ UNCHANGED <<gameState, obstacles, overlay, trackSegments,
                                         currentScore, bestScore, lastObstacleZ>>
                     ELSE UNCHANGED run

\* after updateScoreUI, setOverlay("Tap to start") and the first animate call
MenuInit ==
    /\ gameState = MENU
    /\ score = 0
    /\ highScore = 0
    /\ elapsedSinceStart = 0
    /\ forwardSpeed = baseForwardSpeed
    /\ lastTime = 0
    /\ overlay = "flex"
    /\ localStorage = NoItem
    /\ noLaneGame
    /\ noMenuGame

\* Frames, presses and releases.  The row of a start is drawn in the left or
\* the centre lane, the later rows in the right lane.
MenuNext ==
    \/ /\ currentScore < MenuFrames
       /\ animateMenu({2})
       /\ UNCHANGED <<idle, targetLaneX, restartBtn>>
    \/ /\ \E clientX \in PointerXs : touchStartX' = <<clientX>>
       /\ UNCHANGED <<gameState, obstacles, overlay, playerMesh, trackSegments,
                      currentScore, bestScore, lastObstacleZ, currentLaneIndex>>
       /\ UNCHANGED <<idle, targetLaneX, restartBtn>>
    \/ /\ \E clientX \in PointerXs : onPointerUpMenu(clientX, {0, 1})
       /\ UNCHANGED <<idle, targetLaneX, restartBtn>>
MenuSpec == MenuInit /\ [][MenuNext]_vars

----------------------------------------------------------------------------
(* An obstacle about to pass the player: a run of the lane game that has   *)
(* lasted some whole number of seconds, with one obstacle in the player's  *)
(* lane at the height obstacles are spawned at, a little farther ahead     *)
(* than the collision distance reaches.                                    *)

TunnelSeconds == 62
TunnelOffsets == 2
TunnelFrames == 2

TunnelInit ==
    /\ gameState = PLAYING
    /\ \E s \in 0 .. TunnelSeconds :
         /\ elapsedSinceStart = s * TIME_SCALE
         /\ forwardSpeed = rampSpeed(s * TIME_SCALE)
         /\ score = s * 10 * SCORE_SCALE
    /\ highScore = 0
    /\ currentLaneIndex \in AllLanes
    /\ targetLaneX = LANE_X_POSITIONS[currentLaneIndex + 1]
    /\ player = [createPlayer EXCEPT !.x = targetLaneX]
    /\ \E j \in 1 .. TunnelOffsets :
         obstacles = <<[x |-> player.x, y |-> OBSTACLE_Y,
                        z |-> player.z - (POS + j * (POS \div 40))]>>
    /\ ~collides(obstacles[1], player)
    /\ slideSegments = [i \in 1 .. SEGMENT_COUNT |-> createSlideSegment(i - 1)]
    /\ isDragging = FALSE
    /\ dragStartX = 0
    /\ dragCurrentX = 0
    /\ lastTime = 0
    /\ overlay = "none"
    /\ localStorage = NoItem
    /\ noMenuGame

\* frames with every delta of the model, and a stall
TunnelNext ==
    /\ \E time \in {t \in lastTime .. (lastTime + MAX_DELTA + 1) :
                      t <= TunnelFrames * DeltaSteps} : animate(time, NoDraws)
    /\ UNCHANGED <<localStorage, menuGame>>
TunnelSpec == TunnelInit /\ [][TunnelNext]_vars

----------------------------------------------------------------------------
(* A crowded track: every spawn draw, of createWorld and of every recycled *)
(* segment, comes out "none" or puts an obstacle in the left lane 7 units   *)
(* behind the segment's centre, where the recycling of the next segment    *)
(* does not clear it.  The player stays in the centre lane; frames are     *)
(* full frames.                                                            *)

\* the last frame timestamp, in frames of 0.05 s: two segments are recycled
FullFrames == 84

FullInit ==
    /\ InitWith([lanes |-> {0}, localZs |-> {-7 * POS}, segXs |-> {0},
                 window |-> SEGMENT_COUNT])
    /\ localStorage = NoItem
    /\ noMenuGame

FullNext ==
    \/ /\ \E time \in {t \in {lastTime + MAX_DELTA} : t <= FullFrames * DeltaSteps} :
            animate(time, [lanes |-> {0}, localZs |-> {-7 * POS}, segXs |-> {0},
                           window |-> SEGMENT_COUNT])
       /\ UNCHANGED <<localStorage, menuGame>>
    \/ /\ lastTime = 0
       /\ handleOverlayTap([lanes |-> {0}, localZs |-> {-7 * POS}, segXs |-> {0},
                            window |-> SEGMENT_COUNT])
       /\ UNCHANGED <<localStorage, menuGame>>
FullSpec == FullInit /\ [][FullNext]_vars

----------------------------------------------------------------------------
(* Claims *)

\* C1: gameState starts as READY and changes only along READY -> PLAYING,
\* PLAYING -> GAME_OVER and GAME_OVER -> PLAYING; READY -> GAME_OVER,
\* PLAYING -> READY and GAME_OVER -> READY never happen.
C1_LegalTransitions ==
    /\ gameState = READY
    /\ [][gameState' # gameState =>
            \/ gameState = READY /\ gameState' = PLAYING
            \/ gameState = PLAYING /\ gameState' = GAME_OVER
            \/ gameState = GAME_OVER /\ gameState' = PLAYING]_vars

\* a second run is being played: all three transitions have been taken
C1_Witness == gameState = PLAYING /\ highScore > 0

placedAtPlayer ==
    \E i \in 1 .. Len(obstacles) :
       /\ obstacles[i].x = player.x
       /\ obstacles[i].y = player.y
       /\ obstacles[i].z = player.z

segmentZs == {slideSegments[i].z : i \in 1 .. Len(slideSegments)}

\* C3: segment ring invariant: the 8 segment z positions are pairwise
\* distinct and, sorted, consecutive positions differ by exactly
\* SEGMENT_LENGTH, in every state reached by ticks.
C3_SegmentRing ==
    /\ Len(slideSegments) = SEGMENT_COUNT
    /\ Cardinality(segmentZs) = SEGMENT_COUNT
    /\ \E lo \in segmentZs :
         segmentZs = {lo + k * SEGMENT_LENGTH : k \in 0 .. (SEGMENT_COUNT - 1)}

\* the first segment has been recycled behind the last one
C3_Witness ==
    /\ gameState = PLAYING
    /\ slideSegments[1].z < slideSegments[SEGMENT_COUNT].z

\* C4: cleanup law: after any tick, whatever its outcome, no obstacle
\* remains with z greater than camera z + 10.
C4_CleanupLaw == \A i \in 1 .. Len(obstacles) : obstacles[i].z <= SWEEP_Z

\* C5: clamping law: currentLaneIndex is always in [0, 2]; setLane(i) stores
\* max(0, min(2, i)), so a request for lane index 5 results in index 2, and a
\* release stores the clamped neighbour of the current lane.
C5_LaneClamped ==
    /\ [](currentLaneIndex \in 0 .. 2)
    /\ [](\A i \in -5 .. 5 :
            clampLane(i) = IF i < 0 THEN 0 ELSE IF i > 2 THEN 2 ELSE i)
    /\ [][isDragging /\ ~isDragging' /\ dragCurrentX - dragStartX > SWIPE_THRESHOLD =>
            currentLaneIndex' = (IF currentLaneIndex = 2 THEN 2 ELSE currentLaneIndex + 1)]_vars
    /\ [][isDragging /\ ~isDragging' /\ dragCurrentX - dragStartX < -SWIPE_THRESHOLD =>
            currentLaneIndex' = (IF currentLaneIndex = 0 THEN 0 ELSE currentLaneIndex - 1)]_vars

\* a right swipe is about to be released in the rightmost lane: the release
\* requests index 3
C5_Witness ==
    /\ currentLaneIndex = 2
    /\ isDragging
    /\ dragCurrentX - dragStartX > SWIPE_THRESHOLD

\* the index i of the freshly created segment in whose span
\* [-i * SEGMENT_LENGTH - SEGMENT_LENGTH / 2, -i * SEGMENT_LENGTH + SEGMENT_LENGTH / 2) z lies
freshSpan(z) == (SEGMENT_LENGTH \div 2 - 1 - z) \div SEGMENT_LENGTH

\* C6: a start trigger has the same effect from READY and from GAME_OVER:
\* PLAYING, score 0, elapsed time 0, base speed, centre lane with the target
\* and the player on it, a world rebuilt from scratch (the 8 segments at
\* their first positions, and only obstacles of the new draw: at most one in
\* each fresh segment's span, in segment order), the overlay hidden,
\* highScore unchanged.
C6_StartEffect ==
    [][(gameState = READY \/ gameState = GAME_OVER) /\ gameState' # gameState =>
         /\ gameState' = PLAYING
         /\ score' = 0
         /\ elapsedSinceStart' = 0
         /\ forwardSpeed' = baseForwardSpeed
         /\ currentLaneIndex' = 1
         /\ targetLaneX' = LANE_X_POSITIONS[2]
         /\ player' = [x |-> LANE_X_POSITIONS[2], y |-> PLAYER_Y, z |-> 0]
         /\ slideSegments' = [i \in 1 .. SEGMENT_COUNT |->
                                [x |-> 0, z |-> -(i - 1) * SEGMENT_LENGTH]]
         /\ \A i \in 1 .. Len(obstacles') : freshSpan(obstacles'[i].z) \in 0 .. (SEGMENT_COUNT - 1)
         /\ \A i, j \in 1 .. Len(obstacles') :
              i < j => freshSpan(obstacles'[i].z) < freshSpan(obstacles'[j].z)
         /\ overlay' = "none"
         /\ highScore' = highScore]_vars

\* a restart from GAME_OVER after a run that scored and moved the world
C6_Witness ==
    /\ gameState = PLAYING
    /\ highScore > 0
    /\ elapsedSinceStart = 0

\* C7: while GAME_OVER, an animation frame leaves score, elapsedSinceStart,
\* forwardSpeed, highScore, the player, the segments and the obstacles unchanged.
C7_FrozenWhenOver ==
    [][gameState = GAME_OVER /\ lastTime' # lastTime =>
         /\ gameState' = GAME_OVER
         /\ UNCHANGED <<score, elapsedSinceStart, forwardSpeed, highScore,
                        player, slideSegments, obstacles>>]_vars

\* the game is over after a run that scored, and frames are still to come
C7_Witness ==
    /\ gameState = GAME_OVER
    /\ score > 0
    /\ lastTime < MaxFrames * DeltaSteps

\* C8: score is non-negative and never decreases from one tick to the next
\* while PLAYING; only a start or restart lowers it, to 0.
C8_ScoreMonotone ==
    /\ [](score >= 0)
    /\ [][score' < score =>
            /\ gameState = READY \/ gameState = GAME_OVER
            /\ gameState' = PLAYING
            /\ score' = 0]_vars
    /\ [][gameState = PLAYING /\ gameState' = PLAYING => score' >= score]_vars

\* a second run is scoring after a restart set the score back to 0
C8_Witness ==
    /\ gameState = PLAYING
    /\ highScore > 0
    /\ score > 0

\* C9: every PLAYING -> GAME_OVER transition leaves highScore equal to the
\* maximum of the previous highScore and the score at the transition, and
\* adds nothing to the score beyond the tick's own gain.
C9_HighScoreLaw ==
    [][gameState = PLAYING /\ gameState' = GAME_OVER =>
         /\ highScore' = Max(highScore, score')
         /\ (score' - score) * TIME_SCALE =
              (IF lastTime' - lastTime < MAX_DELTA
               THEN lastTime' - lastTime ELSE MAX_DELTA) * 10 * SCORE_SCALE]_vars

\* a run ended below the high score of an earlier run
C9_Witness ==
    /\ gameState = GAME_OVER
    /\ score > 0
    /\ highScore > score

\* C10: highScore is the maximum score observed so far: highScore >= score
\* in every reachable state.
C10_HighScoreIsMax == highScore >= score

\* C11: in the lane variant with localStorage, a run's score that surpasses
\* the high score is written to the storage, so a page load (the overlay is
\* back at its initial display only then) starts with a high score at least
\* as large as the high score and the score it replaces, hence as large as
\* the best score of any earlier run.
C11_HighScorePersisted ==
    [][overlay' = "initial" => highScore' >= Max(highScore, score)]_vars

\* C12: the persisted high score round-trips in main.ts: every write of the
\* storage stores the score of that moment, a loadHighScore that follows
\* returns exactly that value, and the in-memory highScore equals it; the
\* text of every whole number of points parses back to the number.
C12_RoundTrip ==
    /\ [][localStorage' # localStorage =>
            /\ loadHighScore(localStorage') = score'
            /\ highScore' = loadHighScore(localStorage')]_vars
    /\ [](\A points \in 0 .. 12 :
            loadHighScore(<<toString(points * SCORE_SCALE)>>) = points * SCORE_SCALE)

\* saveHighScore has run: the storage holds "0", which no first page load finds
C12_Witness ==
    /\ localStorage = <<toString(0)>>
    /\ highScore = 0
    /\ gameState = PLAYING

\* C13: in the full game loop score = 10 x elapsedSinceStart in every
\* reachable state, whatever the speed and however the time is divided into
\* ticks; so after ticks whose deltas sum to 1.0 s the score is 10.
C13_ScoreIsTenPerSecond ==
    /\ score * TIME_SCALE = 10 * SCORE_SCALE * elapsedSinceStart
    /\ (elapsedSinceStart = TIME_SCALE => score = 10 * SCORE_SCALE)

\* 1.0 s has been played on a clock that stands between two full frames: the
\* run did not consist of full frames counted from time 0
C13_Witness ==
    /\ gameState = PLAYING
    /\ elapsedSinceStart = TIME_SCALE
    /\ lastTime % MAX_DELTA # 0

\* C15: while PLAYING forwardSpeed >= baseForwardSpeed, and within a run
\* forwardSpeed never decreases from one tick to the next.
C15_SpeedRamp ==
    /\ [](gameState = PLAYING => forwardSpeed >= baseForwardSpeed)
    /\ [][gameState = PLAYING => forwardSpeed' >= forwardSpeed]_vars

\* a second run has gained speed after the restart set it back to the base
C15_Witness ==
    /\ gameState = PLAYING
    /\ highScore > 0
    /\ forwardSpeed > baseForwardSpeed

\* C17: every delta passed to updateGame is in [0, 0.05]: a tick advances
\* elapsedSinceStart by its delta, whatever the gap between the timestamps.
C17_DeltaClamped ==
    [][gameState = PLAYING =>
         /\ elapsedSinceStart' - elapsedSinceStart >= 0
         /\ elapsedSinceStart' - elapsedSinceStart <= MAX_DELTA
         /\ elapsedSinceStart' - elapsedSinceStart <= lastTime' - lastTime]_vars

\* the first tick of a run came after a long stall: 0.05 s played on a clock
\* that stands at the length of the stall or later
C17_Witness ==
    /\ gameState = PLAYING
    /\ elapsedSinceStart = MAX_DELTA
    /\ lastTime >= FineStall * MAX_DELTA

\* C14: in main.ts score accrues with survival time: after frames whose
\* clamped deltas total 1.0 s of play the score is greater than 0.  A run
\* starts at time 0 and a frame's delta is at least half its gap, so a run
\* whose clock has reached 2.0 s has played 1.0 s or more.
C14_ScoreAccrues ==
    gameState = PLAYING /\ lastTime >= 2 * TIME_SCALE => score > 0

\* C16: a press-drag-release gesture released while gameState is READY or
\* GAME_OVER leaves currentLaneIndex and targetLaneX unchanged, whatever its
\* displacement.
C16_ReleaseOutsidePlay ==
    [][isDragging /\ ~isDragging' /\ (gameState = READY \/ gameState = GAME_OVER) =>
         UNCHANGED <<currentLaneIndex, targetLaneX>>]_vars

\* C18: in the START variant the score gained over a given play time is the
\* same however the time is divided into frames; so at every whole multiple
\* of 0.1 s of play (a run starts at time 0) the score is what frames of
\* 0.1 s give, one point each.
C18_FrameRateIndependent ==
    gameState = PLAYING /\ lastTime % MAX_DELTA_START = 0 =>
        score = (lastTime \div MAX_DELTA_START) * SCORE_SCALE

\* C19: in the START variant one restart trigger in GAME_OVER (it hides the
\* game-over overlay) takes the game directly to PLAYING with the effect of
\* the start trigger: score 0, the tap-to-start overlay hidden.
C19_RestartPlays ==
    [][gameState = GAME_OVER /\ overlay'.gameOver = "hidden" =>
         /\ gameState' = PLAYING
         /\ score' = 0
         /\ overlay'.tapToStart = "hidden"]_vars

\* some live obstacle's centre is at squared distance strictly less than
\* (0.5 + 0.6)^2 from the player's centre
touching ==
    \E i \in 1 .. Len(obstacles) :
       distSq(obstacles[i], player) < ((11 * POS) \div 10) * ((11 * POS) \div 10)

\* C20: the collision check of a PLAYING tick runs after the tick's position
\* updates and ends the game exactly when some live obstacle touches the
\* player at the updated positions; a tick makes at most one game-over
\* transition and one high-score commit, of the tick's own score.
C20_CollisionCheck ==
    /\ [][gameState = PLAYING /\ gameState' = GAME_OVER =>
            /\ touching'
            /\ highScore' = Max(highScore, score')]_vars
    /\ [][gameState = PLAYING /\ elapsedSinceStart' > elapsedSinceStart =>
            (gameState' = GAME_OVER <=> touching')]_vars
    /\ [][gameState = PLAYING /\ gameState' = PLAYING => highScore' = highScore]_vars

\* a run ended in its second full frame or later, on an obstacle that the
\* tick itself moved into reach
C20_Witness ==
    /\ gameState = GAME_OVER
    /\ touching
    /\ score >= SCORE_SCALE

\* C21: every obstacle advances in each tick by the displacement of the
\* segments: an obstacle a tick leaves behind is either an earlier obstacle
\* that kept its offset from a segment the tick did not recycle, or was
\* spawned by the tick on a segment it recycled and stands at the offset
\* drawn for it at the spawn.
C21_FixedToSegment ==
    [][gameState = PLAYING /\ elapsedSinceStart' > elapsedSinceStart =>
         \A i \in 1 .. Len(obstacles') : \E j \in 1 .. Len(slideSegments) :
            \/ /\ slideSegments'[j].z >= slideSegments[j].z
               /\ \E k \in 1 .. Len(obstacles) :
                    /\ obstacles[k].x = obstacles'[i].x
                    /\ obstacles'[i].z - slideSegments'[j].z =
                         obstacles[k].z - slideSegments[j].z
            \/ /\ slideSegments'[j].z < slideSegments[j].z
               /\ obstacles'[i].z - slideSegments'[j].z \in RunDraws.localZs]_vars

\* forwardSpeed * delta of the tick between a state and its successor
tickAdvance == advance(forwardSpeed', elapsedSinceStart' - elapsedSinceStart)

\* C22: when a tick recycles a segment, no obstacle that existed before and
\* stood within 0.6 x SEGMENT_LENGTH of the segment's new z at the recycle
\* step (before the tick advanced the obstacles) is left: the obstacles left
\* are earlier obstacles from outside that span, advanced and in their
\* order, and behind them at most one new obstacle, on the recycled segment
\* at a lane centre.
C22_RecycleClears ==
    [][gameState = PLAYING =>
         \A j \in 1 .. Len(slideSegments) :
            slideSegments'[j].z < slideSegments[j].z =>
               LET newZ == slideSegments'[j].z
                   far == {k \in 1 .. Len(obstacles) :
                             Abs(obstacles[k].z - newZ) >= 12 * POS}
                   survivor(o) == \E k \in far :
                                     o = [obstacles[k] EXCEPT !.z = @ + tickAdvance]
                   spawned(o) == /\ o.z - tickAdvance - newZ \in LocalZRange
                                 /\ \E l \in AllLanes : o.x = LANE_X_POSITIONS[l + 1]
               IN /\ Len(obstacles') <= Cardinality(far) + 1
                  /\ \A i \in 1 .. Len(obstacles') :
                       \/ survivor(obstacles'[i])
                       \/ i = Len(obstacles') /\ spawned(obstacles'[i])]_vars

\* the tick that recycled the first segment has removed the obstacle of the
\* last segment: of eight obstacles seven are left beside the new one
C22_Witness ==
    /\ gameState = PLAYING
    /\ slideSegments[1].z < slideSegments[SEGMENT_COUNT].z
    /\ Len(obstacles) = SEGMENT_COUNT
    /\ obstacles[SEGMENT_COUNT].z < slideSegments[1].z

\* C23: a release of a drag with d = dragCurrentX - dragStartX raises
\* currentLaneIndex by exactly 1 (up to 2) if d > 40, lowers it by exactly 1
\* (down to 0) if d < -40 and leaves it alone if |d| <= 40, whatever |d| is;
\* a pointer move alone never changes the lane; without a press, nothing
\* changes the drag state, and the lane changes only by a start.
C23_SwipeLaw ==
    /\ [][isDragging /\ ~isDragging' =>
            LET d == dragCurrentX - dragStartX IN
            /\ d > 40 => currentLaneIndex' = Min(2, currentLaneIndex + 1)
            /\ d < -40 => currentLaneIndex' = Max(0, currentLaneIndex - 1)
            /\ (d <= 40 /\ d >= -40) => currentLaneIndex' = currentLaneIndex
            /\ Abs(currentLaneIndex' - currentLaneIndex) <= 1]_vars
    /\ [][dragCurrentX' # dragCurrentX /\ isDragging' = isDragging =>
            UNCHANGED <<currentLaneIndex, targetLaneX>>]_vars
    /\ [][~isDragging /\ ~isDragging' =>
            /\ UNCHANGED <<dragStartX, dragCurrentX>>
            /\ (currentLaneIndex' # currentLaneIndex =>
                  gameState # PLAYING /\ gameState' = PLAYING)]_vars

\* a drag of 81 pixels to the right is about to be released in the leftmost
\* lane, two lanes from the rightmost
C23_Witness ==
    /\ currentLaneIndex = 0
    /\ isDragging
    /\ dragCurrentX - dragStartX = 2 * SWIPE_THRESHOLD + 1

\* C24: each PLAYING tick moves player.x toward targetLaneX by the fraction
\* min(10 x delta, 1) of the remaining distance (to the nearest position
\* unit): the new x lies between the old x and the target and does not pass
\* it; and player.x stays within [-1.5, 1.5] in every state.
C24_LerpTowardTarget ==
    /\ [][gameState = PLAYING /\ lastTime' # lastTime =>
            LET delta == elapsedSinceStart' - elapsedSinceStart
                remaining == targetLaneX - player.x
                step == player'.x - player.x
            IN /\ 2 * Abs(step * TIME_SCALE - remaining * Min(10 * delta, TIME_SCALE))
                    <= TIME_SCALE
               /\ Min(player.x, targetLaneX) <= player'.x
               /\ player'.x <= Max(player.x, targetLaneX)]_vars
    /\ [](player.x >= -((3 * POS) \div 2) /\ player.x <= (3 * POS) \div 2)

\* the player is on the way back to the left after a swipe to the right was
\* followed part of the way
C24_Witness ==
    /\ gameState = PLAYING
    /\ targetLaneX < player.x
    /\ player.x > 0
    /\ player.x < (3 * POS) \div 2
    /\ elapsedSinceStart % MAX_DELTA # 0

\* C25: in every reachable state of the full game loop forwardSpeed =
\* baseForwardSpeed + 0.5 x elapsedSinceStart, where elapsedSinceStart is 0
\* at a start and grows by the delta of every tick run since.
C25_LinearRamp ==
    /\ [](2 * TIME_SCALE * (forwardSpeed - baseForwardSpeed) =
            SPEED_SCALE * elapsedSinceStart)
    /\ [][gameState # PLAYING /\ gameState' = PLAYING => elapsedSinceStart' = 0]_vars
    /\ [][gameState = PLAYING /\ lastTime' # lastTime =>
            elapsedSinceStart' =
               elapsedSinceStart + Min(lastTime' - lastTime, MAX_DELTA)]_vars

\* a run has ended after ticks of unequal deltas, its speed above the base
C25_Witness ==
    /\ gameState = GAME_OVER
    /\ elapsedSinceStart > MAX_DELTA
    /\ elapsedSinceStart % MAX_DELTA # 0
    /\ forwardSpeed > baseForwardSpeed

\* the world as createWorld leaves it: SEGMENT_COUNT segments at
\* z = -i x SEGMENT_LENGTH, every obstacle at a lane centre and within the
\* span [z - 10, z + 10) of a segment, no two within the same span
freshWorld(segs, obs) ==
    LET onSegment(o, seg) == /\ o.z >= seg.z - 10 * POS
                             /\ o.z < seg.z + 10 * POS
    IN /\ Len(segs) = 8
       /\ \A i \in 1 .. Len(segs) : segs[i].z = -(i - 1) * 20 * POS
       /\ \A k \in 1 .. Len(obs) :
            /\ obs[k].x \in {-((3 * POS) \div 2), 0, (3 * POS) \div 2}
            /\ \E i \in 1 .. Len(segs) : onSegment(obs[k], segs[i])
       /\ \A i \in 1 .. Len(segs) :
            Cardinality({k \in 1 .. Len(obs) : onSegment(obs[k], segs[i])}) <= 1

\* C26: after createWorld, at load and on every start, there are exactly 8
\* segments at z = -i x SEGMENT_LENGTH and at most one obstacle per segment,
\* each at a lane centre and within its segment's span; the number of
\* segments is 8 in every later state.
C26_WorldCreated ==
    /\ [](gameState = READY => freshWorld(slideSegments, obstacles))
    /\ [][gameState # PLAYING /\ gameState' = PLAYING =>
            freshWorld(slideSegments', obstacles')]_vars
    /\ [](Len(slideSegments) = 8)

\* a restart has drawn an obstacle at the near edge of the second segment's
\* span and one at the far edge of the first segment's, one unit apart
C26_Witness ==
    /\ gameState = PLAYING
    /\ highScore > 0
    /\ elapsedSinceStart = 0
    /\ Len(obstacles) = 2
    /\ obstacles[1].z = -(10 * POS)
    /\ obstacles[2].z = -(10 * POS) - 1

\* C27: the canvas pointer handlers (a step that changes the drag state is
\* one of them) never change gameState, score, highScore, elapsedSinceStart,
\* forwardSpeed, the player, the segments or the obstacles, wherever they
\* fall between the ticks; the lane index and the target lane change only by
\* a release or a start.
C27_PointerWritesIntentOnly ==
    /\ [][<<isDragging, dragStartX, dragCurrentX>>' # <<isDragging, dragStartX, dragCurrentX>> =>
            UNCHANGED <<gameState, score, highScore, elapsedSinceStart, forwardSpeed,
                        player, slideSegments, obstacles>>]_vars
    /\ [][<<currentLaneIndex, targetLaneX>>' # <<currentLaneIndex, targetLaneX>> =>
            \/ isDragging /\ ~isDragging'
            \/ gameState # PLAYING /\ gameState' = PLAYING]_vars

\* in a run that has scored, a release has set the pending lane to the right
\* and no tick has read it yet
C27_Witness ==
    /\ gameState = PLAYING
    /\ score > 0
    /\ currentLaneIndex = 2
    /\ player.x = 0
    /\ ~isDragging

\* C28: every animation frame schedules the next one regardless of
\* gameState: whatever the states passed, frames go on until the clock has
\* reached the last timestamp of the model; a frame taken outside
\* PLAYING changes nothing but lastTime, and a frame taken while PLAYING
\* runs updateGame with the clamped delta.
C28_FramesKeepRunning ==
    /\ <>(lastTime > (LiveFrames - 1) * DeltaSteps)
    /\ [][lastTime' # lastTime /\ gameState # PLAYING =>
            UNCHANGED <<gameState, score, highScore, elapsedSinceStart, forwardSpeed,
                        player, slideSegments, obstacles, overlay>>]_vars
    /\ [][lastTime' # lastTime /\ gameState = PLAYING =>
            elapsedSinceStart' =
               elapsedSinceStart + Min(lastTime' - lastTime, MAX_DELTA)]_vars

\* frames have run to the last timestamp after a game over early in the run
C28_Witness ==
    /\ gameState = GAME_OVER
    /\ lastTime = LiveFrames * DeltaSteps
    /\ elapsedSinceStart <= 3 * MAX_DELTA

\* C29: every start hides the prompt overlay and every game over shows it:
\* the overlay is hidden exactly while gameState is PLAYING, shown in every
\* GAME_OVER state and as the page made it in READY; and in every GAME_OVER
\* state a tap on it starts a run.
C29_PromptFollowsState ==
    /\ (gameState = PLAYING <=> overlay = "none")
    /\ (gameState = GAME_OVER <=> overlay = "flex")
    /\ (gameState = GAME_OVER =>
          ENABLED (handleOverlayTap(WideDraws) /\ gameState' = PLAYING))

\* a run has ended at the last timestamp as the best so far, the prompt shown
C29_Witness ==
    /\ gameState = GAME_OVER
    /\ overlay = "flex"
    /\ highScore = score
    /\ score > SCORE_SCALE \div 2
    /\ lastTime = MaxFrames * DeltaSteps

\* C30: a tap delivered while gameState is PLAYING is a no-op.  A step taken
\* while PLAYING that is a tap leaves every variable as it is; and, seen
\* from the states alone, a step that leaves the clock and the drag state as
\* they are (no frame with a later timestamp, no pointer event) leaves score,
\* elapsedSinceStart, forwardSpeed, the lane, the player, the segments and
\* the obstacles unchanged and never returns the game to READY.
C30_TapWhilePlaying ==
    /\ [][gameState = PLAYING /\ handleOverlayTap(WideDraws) => UNCHANGED vars]_vars
    /\ [][gameState = PLAYING /\ gameState' # GAME_OVER /\ lastTime' = lastTime
            /\ UNCHANGED <<isDragging, dragStartX, dragCurrentX>> =>
            /\ gameState' = PLAYING
            /\ UNCHANGED <<score, elapsedSinceStart, forwardSpeed, currentLaneIndex,
                           targetLaneX, player, slideSegments, obstacles>>]_vars

\* a run is under way off the centre lane, past obstacles, with a score: a
\* start would change every one of these
C30_Witness ==
    /\ gameState = PLAYING
    /\ score > 0
    /\ currentLaneIndex = 0
    /\ player.x < 0
    /\ Len(obstacles) > 0

\* C31: the restart button is displayed only while gameState is GAME_OVER;
\* in no reachable state is it displayed while gameState is MENU or PLAYING.
C31_RestartOnlyWhenOver == restartBtn = "block" => gameState = GAME_OVER

\* the farthest segment is never 20 segment lengths or more beyond maxZ = 5:
\* a segment is recycled to one length behind the farthest as soon as it is
\* past maxZ, and the 20 segments lie one length apart
trackFloor == 5 * POS - 20 * TRACK_SEGMENT_LENGTH

\* C32: during a PLAYING run of the pointer-driven MENU loop obstacles keep
\* being spawned ahead of the player; at no point of the run has spawning
\* come to an end.  A row is spawned in a frame only if lastObstacleZ lies
\* above the farthest segment's z less 20, and lastObstacleZ changes only in
\* a spawn: spawning can go on only while lastObstacleZ lies above the
\* lowest z the farthest segment can have, less 20.
C32_SpawningGoesOn ==
    gameState = PLAYING => lastObstacleZ > trackFloor - 20 * POS

\* C33: no tunnelling.  If in a PLAYING tick that leaves the player's x as
\* it is an obstacle with the player's x goes from below the player's z to
\* the player's z or above it, the tick ends in GAME_OVER, for every
\* elapsedSinceStart and every delta up to 0.05 s.
C33_NoTunnelling ==
    [][/\ gameState = PLAYING
       /\ player'.x = player.x
       /\ \E i \in DOMAIN obstacles :
            /\ i \in DOMAIN obstacles'
            /\ obstacles[i].x = player.x
            /\ obstacles'[i].x = obstacles[i].x
            /\ obstacles[i].z < player.z
            /\ obstacles'[i].z >= player.z
       => gameState' = GAME_OVER]_vars

\* C34: right after startGame no obstacle is within collision distance of
\* the player (squared centre distance below 1.21), and the first tick after
\* a start never ends in GAME_OVER.  A run is at its start while it is
\* PLAYING with elapsedSinceStart = 0.
C34_SafeStart ==
    /\ [](gameState = PLAYING /\ elapsedSinceStart = 0 =>
             \A i \in DOMAIN obstacles : ~collides(obstacles[i], player))
    /\ [][gameState = PLAYING /\ elapsedSinceStart = 0 =>
             gameState' # GAME_OVER]_vars

\* C35: the obstacle collection stays bounded: in every reachable state
\* there are at most SEGMENT_COUNT + 1 obstacles.
C35_ObstaclesBounded == Len(obstacles) <= SEGMENT_COUNT + 1

\* the bound is met: the first segment has been recycled and carries a new
\* obstacle, its old one has not yet passed the sweep line, and the seven
\* other segments carry theirs
C35_Witness ==
    /\ gameState = PLAYING
    /\ Len(obstacles) = SEGMENT_COUNT + 1
    /\ slideSegments[1].z < slideSegments[SEGMENT_COUNT].z
    /\ \E i \in DOMAIN obstacles : obstacles[i].z > RECYCLE_Z /\ ~swept(obstacles[i])

\* C36: the ring of segments covers the player, and no segment is left past
\* the recycle threshold: in every reachable state some segment's centre is
\* within SEGMENT_LENGTH / 2 of the player's z, and no segment has
\* z - SEGMENT_LENGTH / 2 > camera z + 5.
C36_RingCoversPlayer ==
    /\ \E i \in DOMAIN slideSegments :
          Abs(slideSegments[i].z - player.z) <= SEGMENT_LENGTH \div 2
    /\ \A i \in DOMAIN slideSegments :
          slideSegments[i].z - SEGMENT_LENGTH \div 2 <= CAMERA_Z + 5 * POS

\* the first segment has been recycled to the far end of the ring; the
\* player is on the second
C36_Witness ==
    /\ gameState = PLAYING
    /\ slideSegments[1].z < slideSegments[SEGMENT_COUNT].z
    /\ Abs(slideSegments[2].z - player.z) <= SEGMENT_LENGTH \div 2
    /\ slideSegments[1].z = slideSegments[SEGMENT_COUNT].z - SEGMENT_LENGTH

\* C37: targetLaneX is the x of the lane currentLaneIndex names, in every
\* reachable state, and a tick (a frame with a later timestamp) changes
\* neither of the two.
C37_TargetFollowsLane ==
    /\ [](targetLaneX = LANE_X_POSITIONS[currentLaneIndex + 1])
    /\ [][lastTime' # lastTime => UNCHANGED <<currentLaneIndex, targetLaneX>>]_vars

\* a swipe has picked the right lane and ticks have moved the player part of
\* the way there
C37_Witness ==
    /\ gameState = PLAYING
    /\ currentLaneIndex = 2
    /\ targetLaneX = LANE_X_POSITIONS[2 + 1]
    /\ elapsedSinceStart > 0
    /\ player.x > LANE_X_POSITIONS[1 + 1]
    /\ player.x < targetLaneX

====
